---- MODULE Spec2Model ----
(***************************************************************************)
(* Model of pkg/encryption/cipher.go: the signed cookie envelope           *)
(* (SignedValue / Validate / checkSignature) and the value ciphers         *)
(* (DefaultCipher, Base64Cipher, CFBCipher, GCMCipher, into).              *)
(*                                                                         *)
(* Strings and byte slices are sequences of numbers: a string is the       *)
(* sequence of its ASCII codes, a byte slice a sequence over 0..255.       *)
(* Instants are counted in ticks, SubSec ticks to the second, which stands *)
(* for the nanosecond resolution of time.Time; durations are ticks too.    *)
(*                                                                         *)
(* Idealisations of the standard library, which is not part of the         *)
(* repository: HMAC is collision free (hmacSum is injective in the hash,   *)
(* the key and the message); the AES block function is some deterministic  *)
(* keyed function on 16-byte blocks (aesBlock); the GCM tag is some        *)
(* deterministic function of key, nonce and ciphertext (gcmTag).           *)
(***************************************************************************)
EXTENDS Integers, Sequences, FiniteSets, TLC

\* ------------------------------------------------------------------ bounds
\* ticks per second (resolution of the modelled clock)
SubSec == 2
\* longest payload, in bytes, handed to SignedValue
MaxValLen == 3
\* largest advance of the clock, in ticks, between the two time.Now() calls
\* of one Validate
MaxDrift == 1
\* longest plaintext, in bytes, handed to Encrypt (more than one AES block)
MaxPlainLen == 17

\* ------------------------------------------------------- program constants
\* time.Minute*5, in seconds (cipher.go:58)
SkewSeconds == 300
\* aes.BlockSize (cipher.go:189, 202)
BlockSize == 16
\* gcm.NonceSize() of the standard GCM (cipher.go:234, 249)
NonceSize == 12
\* tag length of the standard GCM, appended by gcm.Seal (cipher.go:238)
TagSize == 16

\* ------------------------------------------------------------- sequences
Take(s, n) == SubSeq(s, 1, n)
Drop(s, n) == SubSeq(s, n + 1, Len(s))
Min(a, b) == IF a < b THEN a ELSE b

\* ---------------------------------------------------------------- base64
\* encoding/base64, padded, not strict: URLEncoding ("url") has '-' and '_'
\* as its last two letters, StdEncoding ("std") has '+' and '/'.
b64Char(enc, i) ==
    IF i < 26 THEN 65 + i
    ELSE IF i < 52 THEN 97 + (i - 26)
    ELSE IF i < 62 THEN 48 + (i - 52)
    ELSE IF i = 62 THEN (IF enc = "url" THEN 45 ELSE 43)
    ELSE (IF enc = "url" THEN 95 ELSE 47)

\* the decode map: the 6-bit value of letter c, -1 when c is no letter
b64Index(enc, c) ==
    IF c >= 65 /\ c <= 90 THEN c - 65
    ELSE IF c >= 97 /\ c <= 122 THEN c - 97 + 26
    ELSE IF c >= 48 /\ c <= 57 THEN c - 48 + 52
    ELSE IF c = (IF enc = "url" THEN 45 ELSE 43) THEN 62
    ELSE IF c = (IF enc = "url" THEN 95 ELSE 47) THEN 63
    ELSE -1

Pow(b, e) == IF e = 0 THEN 1 ELSE IF e = 1 THEN b ELSE IF e = 2 THEN b * b ELSE b * b * b

\* EncodeToString: 3 bytes make 4 letters, a last group of 1 or 2 bytes is
\* padded with '='
EncodeToString(enc, b) ==
    LET n == Len(b)
        at(k) == IF k <= n THEN b[k] ELSE 0
    IN [i \in 1..(4 * ((n + 2) \div 3)) |->
          LET g == (i - 1) \div 4
              p == (i - 1) % 4
              val == at(3 * g + 1) * 65536 + at(3 * g + 2) * 256 + at(3 * g + 3)
          IN IF p = 2 /\ 3 * g + 2 > n THEN 61
             ELSE IF p = 3 /\ 3 * g + 3 > n THEN 61
             ELSE b64Char(enc, (val \div Pow(64, 3 - p)) % 64)]

\* DecodeString: '\r' and '\n' are skipped; what is left must be groups of 4
\* letters, the last one possibly "xx==" or "xxx="; the unused low bits of a
\* padded group are not checked.
DecodeString(enc, s) ==
    LET t == SelectSeq(s, LAMBDA c : c # 10 /\ c # 13)
        n == Len(t)
        npad == IF n >= 2 /\ t[n] = 61 /\ t[n - 1] = 61 THEN 2
                ELSE IF n >= 1 /\ t[n] = 61 THEN 1 ELSE 0
        wellFormed == /\ n % 4 = 0
                      /\ \A i \in 1..(n - npad) : b64Index(enc, t[i]) >= 0
        six(k) == IF k <= n - npad THEN b64Index(enc, t[k]) ELSE 0
    IN IF ~wellFormed THEN [ok |-> FALSE, bytes |-> << >>]
       ELSE [ok |-> TRUE,
             bytes |-> [j \in 1..(3 * (n \div 4) - npad) |->
                 LET g == (j - 1) \div 3
                     q == (j - 1) % 3
                     val == six(4 * g + 1) * 262144 + six(4 * g + 2) * 4096
                            + six(4 * g + 3) * 64 + six(4 * g + 4)
                 IN (val \div Pow(256, 2 - q)) % 256]]

\* ------------------------------------------------------- strings, numbers
\* strings.Split(s, "|")
RECURSIVE Split(_)
Split(s) ==
    IF \A i \in 1..Len(s) : s[i] # 124 THEN << s >>
    ELSE LET i == CHOOSE k \in 1..Len(s) :
                     s[k] = 124 /\ \A j \in 1..(k - 1) : s[j] # 124
         IN << Take(s, i - 1) >> \o Split(Drop(s, i))

\* fmt.Sprintf("%d", n)
RECURSIVE Itoa(_)
Itoa(n) ==
    IF n < 0 THEN << 45 >> \o Itoa(0 - n)
    ELSE IF n < 10 THEN << 48 + n >>
    ELSE Itoa(n \div 10) \o << 48 + (n % 10) >>

RECURSIVE digitsValue(_)
digitsValue(d) ==
    IF d = << >> THEN 0
    ELSE 10 * digitsValue(Take(d, Len(d) - 1)) + (d[Len(d)] - 48)

\* strconv.Atoi: an optional sign, then one decimal digit or more (the
\* strings of the model are too short for the range error)
Atoi(s) ==
    LET signed == s # << >> /\ s[1] \in {43, 45}
        d == IF signed THEN Drop(s, 1) ELSE s
    IN IF d = << >> \/ \E i \in 1..Len(d) : d[i] < 48 \/ d[i] > 57
       THEN [ok |-> FALSE, val |-> 0]
       ELSE [ok |-> TRUE,
             val |-> IF signed /\ s[1] = 45 THEN 0 - digitsValue(d)
                     ELSE digitsValue(d)]

\* ------------------------------------------------------------------- time
\* time.Time as [zero, ticks]: the zero Time, or an instant in ticks
ZeroTime == [zero |-> TRUE, ticks |-> 0]
\* time.Unix(sec, 0)
TimeUnix(sec) == [zero |-> FALSE, ticks |-> sec * SubSec]
\* Time.Unix(): whole seconds, the fraction dropped
UnixSeconds(ticks) == ticks \div SubSec

\* ------------------------------------------------------------------- HMAC
\* hmac.New(signer, key), h.Write(arg) for each arg, h.Sum: the MAC of the
\* arguments written one after another. Collision free: the sum names the
\* hash, the key and the message.
hashTag(signer) == IF signer = "sha256" THEN 2 ELSE IF signer = "sha1" THEN 1 ELSE 0

RECURSIVE Concat(_)
Concat(args) == IF args = << >> THEN << >> ELSE Head(args) \o Concat(Tail(args))

hmacSum(signer, key, msg) == << hashTag(signer), Len(key) >> \o key \o msg

\* as cookieSignature, the last argument (the timestamp) left out of the MAC
cookieSignatureShort(signer, args) ==
    EncodeToString("url",
        hmacSum(signer, args[1], Concat(SubSeq(args, 2, Len(args) - 1))))

cookieSignature(signer, args) ==
    EncodeToString("url", hmacSum(signer, args[1], Concat(Tail(args))))

checkHmac(input, expected) ==
    LET inputMAC == DecodeString("url", input)
        expectedMAC == DecodeString("url", expected)
    IN IF inputMAC.ok
       THEN (IF expectedMAC.ok THEN inputMAC.bytes = expectedMAC.bytes ELSE FALSE)
       ELSE FALSE

\* as checkSignature, without the retry under SHA1
checkSignatureSha256Only(signature, args) ==
    checkHmac(signature, cookieSignature("sha256", args))

checkSignature(signature, args) ==
    IF checkHmac(signature, cookieSignature("sha256", args)) THEN TRUE
    ELSE checkHmac(signature, cookieSignature("sha1", args))

\* --------------------------------------------------------------- envelope
\* the body of SignedValue for a given hash; SignedValue itself signs with
\* sha256.New
\* as envelope, the timestamp written at the clock's resolution instead of
\* in seconds
envelopeRawTime(signer, seed, key, value, now) ==
    LET encodedValue == EncodeToString("url", value)
        timeStr == Itoa(now)
        sig == cookieSignature(signer, << seed, key, encodedValue, timeStr >>)
    IN encodedValue \o << 124 >> \o timeStr \o << 124 >> \o sig

envelope(signer, seed, key, value, now) ==
    LET encodedValue == EncodeToString("url", value)
        timeStr == Itoa(UnixSeconds(now))
        sig == cookieSignature(signer, << seed, key, encodedValue, timeStr >>)
    IN encodedValue \o << 124 >> \o timeStr \o << 124 >> \o sig

SignedValue(seed, key, value, now) == envelope("sha256", seed, key, value, now)

\* line 58: t.After(time.Now().Add(expiration*-1)) &&
\* t.Before(time.Now().Add(time.Minute*5)), the clock reading now1, then now2
inWindowInclusive(t, expiration, now1, now2) ==
    t >= now1 - expiration /\ t < now2 + SkewSeconds * SubSec

inWindow(t, expiration, now1, now2) ==
    t > now1 - expiration /\ t < now2 + SkewSeconds * SubSec

\* Validate, with the two readings now1 <= now2 of time.Now(). "at" is the
\* return statement taken: "parts" (line 46), "atoi" (line 51), "ok"
\* (line 64), "decode", "window" or "sig" (line 68, after the check named).
NilValue == [nil |-> TRUE, bytes |-> << >>]

Validate(cookie, seed, expiration, now1, now2) ==
    LET parts == Split(cookie.Value)
        none == [value |-> NilValue, t |-> ZeroTime, ok |-> FALSE]
    IN IF Len(parts) # 3 THEN none @@ [at |-> "parts"]
       ELSE IF ~checkSignature(parts[3], << seed, cookie.Name, parts[1], parts[2] >>)
       THEN none @@ [at |-> "sig"]
       ELSE LET ts == Atoi(parts[2])
            IN IF ~ts.ok THEN none @@ [at |-> "atoi"]
               ELSE LET t == TimeUnix(ts.val)
                    IN IF inWindow(t.ticks, expiration, now1, now2)
                       THEN LET rawValue == DecodeString("url", parts[1])
                            IN IF rawValue.ok
                               THEN [value |-> [nil |-> FALSE, bytes |-> rawValue.bytes],
                                     t |-> t, ok |-> TRUE, at |-> "ok"]
                               ELSE [value |-> NilValue, t |-> t, ok |-> FALSE,
                                     at |-> "decode"]
                       ELSE [value |-> NilValue, t |-> t, ok |-> FALSE,
                             at |-> "window"]

\* ---------------------------------------------------------------- ciphers
\* results of Encrypt and Decrypt: ([]byte, error), or a run-time panic
NilBytes == [nil |-> TRUE, bytes |-> << >>]
Bytes(b) == [nil |-> FALSE, bytes |-> b]
Returned(b) == [out |-> Bytes(b), err |-> FALSE, panic |-> FALSE]
Failed == [out |-> NilBytes, err |-> TRUE, panic |-> FALSE]
Panicked == [out |-> NilBytes, err |-> FALSE, panic |-> TRUE]

\* exclusive or of two bytes
Xor(a, b) ==
    LET x(k) == ((a \div k) + (b \div k)) % 2
    IN x(1) + 2 * x(2) + 4 * x(4) + 8 * x(8) + 16 * x(16) + 32 * x(32)
       + 64 * x(64) + 128 * x(128)

\* aes.NewCipher(secret): the key is 16, 24 or 32 bytes long
validKey(secret) == Len(secret) \in {16, 24, 32}

\* the block function c.Block.Encrypt: a deterministic function of the key
\* and of a block of BlockSize bytes
aesBlock(key, block) ==
    [i \in 1..BlockSize |->
        (7 * block[i] + 3 * block[(i % BlockSize) + 1]
         + key[((i - 1) % Len(key)) + 1] + 31 * i) % 256]

\* cipher.NewCFBEncrypter / NewCFBDecrypter followed by XORKeyStream: each
\* block of src is xored with the block function of the ciphertext block
\* before it (of the IV for the first)
RECURSIVE cfbXORKeyStream(_, _, _, _)
cfbXORKeyStream(key, prev, src, decrypt) ==
    IF src = << >> THEN << >>
    ELSE LET ks == aesBlock(key, prev)
             n == Min(BlockSize, Len(src))
             chunk == Take(src, n)
             dst == [i \in 1..n |-> Xor(chunk[i], ks[i])]
         IN dst \o cfbXORKeyStream(key, IF decrypt THEN chunk ELSE dst,
                                   Drop(src, n), decrypt)

\* rnd is what io.ReadFull(rand.Reader, ...) does: [ok, bytes]
CFBEncrypt(key, value, rnd) ==
    IF ~rnd.ok THEN Failed
    ELSE LET iv == Take(rnd.bytes, BlockSize)
         IN Returned(iv \o cfbXORKeyStream(key, iv, value, FALSE))

\* as CFBDecrypt, the stream made by NewCFBEncrypter
CFBDecryptWithEncrypter(key, ciphertext) ==
    IF Len(ciphertext) < BlockSize THEN Failed
    ELSE Returned(cfbXORKeyStream(key, Take(ciphertext, BlockSize),
                                  Drop(ciphertext, BlockSize), FALSE))

CFBDecrypt(key, ciphertext) ==
    IF Len(ciphertext) < BlockSize THEN Failed
    ELSE Returned(cfbXORKeyStream(key, Take(ciphertext, BlockSize),
                                  Drop(ciphertext, BlockSize), TRUE))

\* the counter mode of GCM: byte i is xored with the block function of
\* nonce + counter, the counter starting at 2
gcmCTR(key, nonce, src) ==
    [i \in 1..Len(src) |->
        Xor(src[i],
            aesBlock(key, nonce \o << 0, 0, 0, 2 + ((i - 1) \div BlockSize) >>)
                [((i - 1) % BlockSize) + 1])]

\* the authentication tag: a deterministic function of key, nonce and
\* ciphertext, TagSize bytes long
gcmTag(key, nonce, ct) ==
    LET mask == aesBlock(key, nonce \o << 0, 0, 0, 1 >>)
        RECURSIVE fold(_, _)
        fold(k, acc) == IF k > Len(ct) THEN acc
                        ELSE fold(k + 1, (acc * 5 + ct[k] + k) % 256)
        h == fold(1, Len(ct))
    IN [i \in 1..TagSize |-> Xor(mask[i], (h + 17 * i) % 256)]

\* gcm.Seal(nonce, nonce, value, nil): nonce + ciphertext + tag
gcmSeal(key, nonce, value) ==
    LET ct == gcmCTR(key, nonce, value)
    IN nonce \o ct \o gcmTag(key, nonce, ct)

\* gcm.Open(nil, nonce, ciphertext, nil)
gcmOpen(key, nonce, sealed) ==
    IF Len(sealed) < TagSize THEN Failed
    ELSE LET ct == Take(sealed, Len(sealed) - TagSize)
             tag == Drop(sealed, Len(sealed) - TagSize)
         IN IF tag # gcmTag(key, nonce, ct) THEN Failed
            ELSE Returned(gcmCTR(key, nonce, ct))

GCMEncrypt(key, value, rnd) ==
    IF ~rnd.ok THEN Failed
    ELSE Returned(gcmSeal(key, Take(rnd.bytes, NonceSize), value))

\* ciphertext[:nonceSize], ciphertext[nonceSize:] panics (slice bounds out
\* of range) when the ciphertext is shorter than the nonce
GCMDecrypt(key, ciphertext) ==
    IF Len(ciphertext) < NonceSize THEN Panicked
    ELSE gcmOpen(key, Take(ciphertext, NonceSize), Drop(ciphertext, NonceSize))

\* DefaultCipher.Encrypt, DefaultCipher.Decrypt
DefaultEncrypt(value) == Returned(value)
DefaultDecrypt(ciphertext) == Returned(ciphertext)

\* a Cipher is [wrap, variant, key]: variant "default", "cfb" or "gcm", and
\* wrap says that a Base64Cipher holds it. rawEncrypt / rawDecrypt are the
\* calls c.Cipher.Encrypt / c.Cipher.Decrypt through the interface.
rawEncrypt(c, value, rnd) ==
    IF c.variant = "cfb" THEN CFBEncrypt(c.key, value, rnd)
    ELSE IF c.variant = "gcm" THEN GCMEncrypt(c.key, value, rnd)
    ELSE DefaultEncrypt(value)

rawDecrypt(c, ciphertext) ==
    IF c.variant = "cfb" THEN CFBDecrypt(c.key, ciphertext)
    ELSE IF c.variant = "gcm" THEN GCMDecrypt(c.key, ciphertext)
    ELSE DefaultDecrypt(ciphertext)

Base64Encrypt(c, value, rnd) ==
    LET encrypted == rawEncrypt(c, value, rnd)
    IN IF encrypted.err \/ encrypted.panic THEN encrypted
       ELSE Returned(EncodeToString("std", encrypted.out.bytes))

Base64Decrypt(c, ciphertext) ==
    LET encrypted == DecodeString("std", ciphertext)
    IN IF ~encrypted.ok THEN Failed ELSE rawDecrypt(c, encrypted.bytes)

\* Cipher.Encrypt / Cipher.Decrypt of the cipher constructed
Encrypt(c, value, rnd) ==
    IF c.wrap THEN Base64Encrypt(c, value, rnd) ELSE rawEncrypt(c, value, rnd)

Decrypt(c, ciphertext) ==
    IF c.wrap THEN Base64Decrypt(c, ciphertext) ELSE rawDecrypt(c, ciphertext)

\* into(f, s): s is a *string, [nil, str]; d is what f([]byte(*s)) returns,
\* looked at only when s is neither nil nor empty
NilString == [nil |-> TRUE, str |-> << >>]
String(b) == [nil |-> FALSE, str |-> b]

into(d, s) ==
    IF s.nil \/ s.str = << >> THEN [s |-> s, err |-> FALSE, panic |-> FALSE]
    ELSE (  IF d.panic THEN [s |-> s, err |-> FALSE, panic |-> TRUE]
            ELSE IF d.err THEN [s |-> s, err |-> TRUE, panic |-> FALSE]
            ELSE [s |-> String(d.out.bytes), err |-> FALSE, panic |-> FALSE])

\* EncryptInto and DecryptInto are declared on *DefaultCipher alone. The
\* other ciphers embed DefaultCipher, so c.EncryptInto(s) on any of them is
\* the promoted method with the embedded DefaultCipher as its receiver, and
\* the c.Encrypt inside it is DefaultCipher.Encrypt.
EncryptInto(c, s) == into(DefaultEncrypt(s.str), s)
DecryptInto(c, s) == into(DefaultDecrypt(s.str), s)

\* ------------------------------------------------------------ input sets
\* seeds: "k" and "x"; the server signs with "k"
Seeds == { << 107 >>, << 120 >> }
SignSeeds == { << 107 >> }
\* cookie names: "s" and "sAAAA"
Names == { << 115 >>, << 115, 65, 65, 65, 65 >> }
\* payloads: "", "a", "ab", "abc", ... and three zero bytes ("AAAA" encoded)
Values == { [i \in 1..n |-> 96 + i] : n \in 0..MaxValLen } \cup { << 0, 0, 0 >> }
\* signing instants: ten seconds after the epoch, and one tick later
SignTimes == { 10 * SubSec, 10 * SubSec + 1 }
\* expirations: none, one tick, one second
Expirations == { 0, 1, SubSec }
\* clock readings, as offsets from the instant the cookie was signed at:
\* around the expiry (up to expiration + 1 second) and around the skew
\* limit (6 minutes, 5 minutes and 4 minutes before the signing)
ClockOffsets == (0 - 1)..(2 * SubSec)
                \cup { 0 - 360 * SubSec, 0 - SkewSeconds * SubSec - 1,
                       0 - SkewSeconds * SubSec, 0 - 240 * SubSec }
Clocks(T) == { T + o : o \in ClockOffsets }
\* bytes a client may write over a byte of the envelope: 'A', '1', '|'
TamperBytes == { 65, 49, 124 }

\* plaintexts: short ones, and the two longest
Plaintexts == { [i \in 1..n |-> 64 + i] :
                  n \in {0, 1, 2, MaxPlainLen - 1, MaxPlainLen} }
\* secrets: two AES-128 keys, and one of 5 bytes that aes.NewCipher refuses
Secrets == { [i \in 1..16 |-> i], [i \in 1..16 |-> 255 - 3 * i], [i \in 1..5 |-> i] }
\* what the random source hands out: zeros, other bytes, or a failure
Randoms == { [ok |-> TRUE, bytes |-> [i \in 1..BlockSize |-> 0]],
             [ok |-> TRUE, bytes |-> [i \in 1..BlockSize |-> 200 + i]],
             [ok |-> FALSE, bytes |-> << >>] }
\* strings handed to EncryptInto / DecryptInto: nil, "", "a", "ab"
Strings == { NilString, String(<< >>), String(<< 97 >>), String(<< 97, 98 >>) }

\* ------------------------------------------------------------------ state
VARIABLES
    cookie,   \* the http.Cookie the client holds: [Name, Value]
    origin,   \* how it came to be: the SignedValue call and the edit made since
    res,      \* the last Validate call: its arguments, clock readings, results
    cipher,   \* the Cipher constructed: [variant, key]
    buf,      \* the byte slice last produced by Encrypt, and what was done to it
    last      \* the last cipher call: its arguments and results

envVars == << cookie, origin, res >>
cipherVars == << cipher, buf, last >>
vars == << cookie, origin, res, cipher, buf, last >>

NoCookie == [Name |-> << >>, Value |-> << >>]
NoOrigin == [kind |-> "none", signer |-> "none", seed |-> << >>, key |-> << >>,
             value |-> << >>, now |-> 0, field |-> 0]
NoRes == [called |-> FALSE, seed |-> << >>, expiration |-> 0, now1 |-> 0, now2 |-> 0,
          value |-> NilValue, t |-> ZeroTime, ok |-> FALSE, at |-> "none"]

\* ------------------------------------------------------- envelope actions
\* the server signs a payload and sets the cookie (SignedValue); signer is
\* sha256 for this release, sha1 for a release before the migration, and
\* "md5" stands for any other hash
Sign(signer, seed, key, value, now) ==
    /\ origin.kind = "none"
    /\ cookie' = [Name |-> key, Value |-> envelope(signer, seed, key, value, now)]
    /\ origin' = [kind |-> "signed", signer |-> signer, seed |-> seed, key |-> key,
                  value |-> value, now |-> now, field |-> 0]
    /\ res' = NoRes
    /\ UNCHANGED cipherVars

\* the client overwrites one byte of the value field (1) or of the timestamp
\* field (2) of an envelope signed by this release, and leaves the signature
ReplaceByte(field, i, b) ==
    /\ origin.kind = "signed" /\ origin.signer = "sha256"
    /\ ~res.called
    /\ LET parts == Split(cookie.Value)
       IN /\ i \in 1..Len(parts[field])
          /\ parts[field][i] # b
          /\ LET edited == [parts EXCEPT ![field][i] = b]
             IN cookie' = [cookie EXCEPT !.Value =
                    edited[1] \o << 124 >> \o edited[2] \o << 124 >> \o edited[3]]
    /\ origin' = [origin EXCEPT !.kind = "tampered", !.field = field]
    /\ res' = NoRes
    /\ UNCHANGED cipherVars

\* the client sends the signature of an envelope back under another cookie
\* name, with value and timestamp fields of its choice: the original fields,
\* or the bytes after the new name in name+value+timestamp, cut at j
Replay(name, j) ==
    /\ origin.kind = "signed" /\ origin.signer = "sha256"
    /\ ~res.called
    /\ name # cookie.Name
    /\ LET parts == Split(cookie.Value)
           whole == cookie.Name \o parts[1] \o parts[2]
           isPrefix == Len(name) <= Len(whole) /\ Take(whole, Len(name)) = name
           rest == Drop(whole, Len(name))
       IN /\ IF isPrefix THEN j \in 0..Len(rest) ELSE j = 0
          /\ cookie' = [Name |-> name,
                        Value |-> IF isPrefix
                                  THEN Take(rest, j) \o << 124 >> \o Drop(rest, j)
                                       \o << 124 >> \o parts[3]
                                  ELSE cookie.Value]
    /\ origin' = [origin EXCEPT !.kind = "replayed"]
    /\ res' = NoRes
    /\ UNCHANGED cipherVars

\* the client sends back something with 1, 2 or 4 fields (n = 0: nothing),
\* or three fields with the signature cut short by a byte (n = 3) or with a
\* line feed after the signature (n = 5)
Malform(n) ==
    /\ origin.kind = "signed" /\ origin.signer = "sha256"
    /\ ~res.called
    /\ LET parts == Split(cookie.Value)
       IN cookie' = [cookie EXCEPT !.Value =
              IF n = 0 THEN << >>
              ELSE IF n = 1 THEN parts[1]
              ELSE IF n = 2 THEN parts[1] \o << 124 >> \o parts[2]
              ELSE IF n = 3 THEN Take(cookie.Value, Len(cookie.Value) - 1)
              ELSE IF n = 5 THEN cookie.Value \o << 10 >>
              ELSE cookie.Value \o << 124 >> \o parts[3]]
    /\ origin' = [origin EXCEPT !.kind = "malformed", !.field = n]
    /\ res' = NoRes
    /\ UNCHANGED cipherVars

\* the server validates the cookie it received; the clock reads now1 at the
\* first time.Now() and now1 + drift at the second
DoValidate(seed, expiration, now1, drift) ==
    /\ origin.kind # "none"
    /\ ~res.called
    /\ res' = [called |-> TRUE, seed |-> seed, expiration |-> expiration,
               now1 |-> now1, now2 |-> now1 + drift]
              @@ Validate(cookie, seed, expiration, now1, now1 + drift)
    /\ UNCHANGED << cookie, origin >>
    /\ UNCHANGED cipherVars

\* the cookie is dropped: the next request starts afresh
DropCookie ==
    /\ res.called
    /\ cookie' = NoCookie
    /\ origin' = NoOrigin
    /\ res' = NoRes
    /\ UNCHANGED cipherVars

\* --------------------------------------------------------- cipher actions
NoCipher == [made |-> FALSE, wrap |-> FALSE, variant |-> "none", key |-> << >>]
NoBuf == [has |-> FALSE, data |-> << >>, from |-> << >>, cut |-> FALSE]
NoRandom == [ok |-> FALSE, bytes |-> << >>]
NoCall == [op |-> "none", arg |-> NilString, rnd |-> NoRandom, out |-> NilBytes,
           s |-> NilString, err |-> FALSE, panic |-> FALSE]

\* NewCFBCipher(secret), NewGCMCipher(secret), NewBase64Cipher(init, secret),
\* &DefaultCipher{}
NewCipher(wrap, variant, secret) ==
    /\ ~cipher.made /\ last.op = "none"
    /\ IF variant # "default" /\ ~validKey(secret)
       THEN /\ last' = [NoCall EXCEPT !.op = "New", !.arg = String(secret), !.err = TRUE]
            /\ cipher' = cipher
       ELSE /\ cipher' = [made |-> TRUE, wrap |-> wrap, variant |-> variant,
                          key |-> IF variant = "default" THEN << >> ELSE secret]
            /\ last' = last
    /\ buf' = buf
    /\ UNCHANGED envVars

DoEncrypt(value, rnd) ==
    /\ cipher.made /\ last.op = "none"
    /\ LET r == Encrypt(cipher, value, rnd)
       IN /\ last' = [NoCall EXCEPT !.op = "Encrypt", !.arg = String(value), !.rnd = rnd,
                                    !.out = r.out, !.err = r.err, !.panic = r.panic]
          /\ buf' = IF r.err \/ r.panic THEN NoBuf
                    ELSE [has |-> TRUE, data |-> r.out.bytes, from |-> value,
                          cut |-> FALSE]
    /\ UNCHANGED << cipher >>
    /\ UNCHANGED envVars

\* the ciphertext comes back cut to its first n bytes
Truncate(n) ==
    /\ last.op = "Encrypt" /\ buf.has /\ ~buf.cut
    /\ n < Len(buf.data)
    /\ buf' = [buf EXCEPT !.data = Take(buf.data, n), !.cut = TRUE]
    /\ UNCHANGED << cipher, last >>
    /\ UNCHANGED envVars

DoDecrypt ==
    /\ last.op = "Encrypt" /\ buf.has
    /\ LET r == Decrypt(cipher, buf.data)
       IN last' = [NoCall EXCEPT !.op = "Decrypt", !.arg = String(buf.data),
                                 !.out = r.out, !.err = r.err, !.panic = r.panic]
    /\ UNCHANGED << cipher, buf >>
    /\ UNCHANGED envVars

\* rnd is what the random source would hand out if it were asked
DoEncryptInto(s, rnd) ==
    /\ cipher.made /\ last.op = "none"
    /\ LET r == EncryptInto(cipher, s)
       IN last' = [NoCall EXCEPT !.op = "EncryptInto", !.arg = s, !.rnd = rnd,
                                 !.s = r.s, !.err = r.err, !.panic = r.panic]
    /\ UNCHANGED << cipher, buf >>
    /\ UNCHANGED envVars

\* the string is one of Strings, or the ciphertext Encrypt has just returned
DoDecryptInto(s) ==
    /\ cipher.made
    /\ \/ last.op = "none" /\ s \in Strings
       \/ last.op = "Encrypt" /\ buf.has /\ ~buf.cut /\ s = String(buf.data)
    /\ LET r == DecryptInto(cipher, s)
       IN last' = [NoCall EXCEPT !.op = "DecryptInto", !.arg = s,
                                 !.s = r.s, !.err = r.err, !.panic = r.panic]
    /\ UNCHANGED << cipher, buf >>
    /\ UNCHANGED envVars

\* the caller is done with the cipher
Forget ==
    /\ last.op \in {"New", "Decrypt", "EncryptInto", "DecryptInto"}
    /\ cipher' = NoCipher
    /\ buf' = NoBuf
    /\ last' = NoCall
    /\ UNCHANGED envVars

Init ==
    /\ cookie = NoCookie
    /\ origin = NoOrigin
    /\ res = NoRes
    /\ cipher = NoCipher
    /\ buf = NoBuf
    /\ last = NoCall

Next ==
    \/ \E seed \in SignSeeds, key \in Names, value \in Values, now \in SignTimes :
          Sign("sha256", seed, key, value, now)
    \/ \E signer \in {"sha1", "md5"}, seed \in SignSeeds, value \in Values :
          Sign(signer, seed, << 115 >>, value, 10 * SubSec)
    \/ \E field \in {1, 2}, i \in 1..(4 * ((MaxValLen + 2) \div 3)), b \in TamperBytes :
          ReplaceByte(field, i, b)
    \/ \E name \in Names, j \in 0..(4 + 4 * ((MaxValLen + 2) \div 3) + 2) : Replay(name, j)
    \/ \E n \in 0..5 : Malform(n)
    \/ \E seed \in Seeds, expiration \in Expirations, now1 \in Clocks(origin.now),
          drift \in 0..MaxDrift : DoValidate(seed, expiration, now1, drift)
    \/ DropCookie

Spec == Init /\ [][Next]_vars

CipherNext ==
    \/ \E wrap \in BOOLEAN, variant \in {"default", "cfb", "gcm"}, secret \in Secrets :
          NewCipher(wrap, variant, secret)
    \/ \E value \in Plaintexts, rnd \in Randoms : DoEncrypt(value, rnd)
    \/ \E n \in 0..(4 * ((BlockSize + MaxPlainLen + TagSize + 2) \div 3)) : Truncate(n)
    \/ DoDecrypt
    \/ \E s \in Strings, rnd \in Randoms : DoEncryptInto(s, rnd)
    \/ \E s \in Strings \cup { String(buf.data) } : DoDecryptInto(s)
    \/ Forget

CipherSpec == Init /\ [][CipherNext]_vars

\* ---------------------------------------------------------------- claims
\* the envelope the client holds is the one SignedValue (this release)
\* returned, under the name it was signed for
Untouched == origin.kind = "signed" /\ origin.signer = "sha256"
\* Validate has been called with the seed the envelope was signed with
ValidatedSameSeed == res.called /\ res.seed = origin.seed

\* C3 as stated: an envelope signed at T with expiration > 0 is accepted at
\* clock T + expiration, rejected at T + expiration + 1 second, accepted at
\* T - 4 minutes and rejected at T - 6 minutes.
C3_AsStated ==
    (Untouched /\ ValidatedSameSeed /\ res.expiration > 0) =>
        /\ (res.now1 = origin.now + res.expiration => res.ok)
        /\ (res.now1 = origin.now + res.expiration + SubSec => ~res.ok)
        /\ (res.now1 = origin.now - 240 * SubSec => res.ok)
        /\ (res.now1 = origin.now - 360 * SubSec => ~res.ok)

\* C3 amended: the lower bound of the window is exclusive. The envelope is
\* rejected at clock T + expiration and at T + expiration + 1 second, is
\* accepted at every clock reading from T up to, not including,
\* floor(T) + expiration (floor(T) being T cut to whole seconds), is accepted
\* at T - 4 minutes and rejected at T - 6 minutes.
C3_ExpiryBoundary ==
    (Untouched /\ ValidatedSameSeed /\ res.expiration > 0) =>
        /\ (res.now1 = origin.now + res.expiration => ~res.ok)
        /\ (res.now1 = origin.now + res.expiration + SubSec => ~res.ok)
        /\ (/\ res.now1 >= origin.now
            /\ res.now1 < UnixSeconds(origin.now) * SubSec + res.expiration
            => res.ok)
        /\ (res.now1 = origin.now - 240 * SubSec => res.ok)
        /\ (res.now1 = origin.now - 360 * SubSec => ~res.ok)

C3_Witness ==
    /\ Untouched /\ ValidatedSameSeed /\ res.expiration > 0
    /\ res.now1 = origin.now + res.expiration
    /\ res.at = "window" /\ ~res.ok

\* C4: with three fields, a valid signature, an integer timestamp ts and a
\* decodable value field, Validate returns ok exactly when
\* now - expiration < ts <= now + 5 minutes (the clock reading now at both
\* calls of time.Now()).
C4_WindowOpenClosed ==
    (res.called /\ res.now1 = res.now2 /\ res.at \in {"ok", "window"}) =>
        (res.ok <=> /\ res.now1 - res.expiration < res.t.ticks
                    /\ res.t.ticks <= res.now1 + SkewSeconds * SubSec)

\* C5 as stated: for a whole-second now and every expiration >= 0,
\* validating SignedValue(seed, name, v, now) at clock now returns
\* (v, now, true).
C5_AsStated ==
    (/\ Untouched /\ ValidatedSameSeed
     /\ origin.now % SubSec = 0 /\ res.now1 = origin.now) =>
        /\ res.ok
        /\ res.value = [nil |-> FALSE, bytes |-> origin.value]
        /\ res.t = [zero |-> FALSE, ticks |-> origin.now]

\* C5 amended: the same for every expiration > 0 (with expiration = 0 the
\* window (now, now + 5 minutes) does not hold now).
C5_RoundTrip ==
    (/\ Untouched /\ ValidatedSameSeed /\ res.expiration > 0
     /\ origin.now % SubSec = 0 /\ res.now1 = origin.now) =>
        /\ res.ok
        /\ res.value = [nil |-> FALSE, bytes |-> origin.value]
        /\ res.t = [zero |-> FALSE, ticks |-> origin.now]

C5_Witness ==
    /\ Untouched /\ ValidatedSameSeed /\ res.expiration > 0
    /\ origin.now % SubSec = 0 /\ res.now1 = origin.now
    /\ origin.value # << >> /\ res.ok /\ res.value.bytes = origin.value

\* C6: a cookie under another name that carries the signature of
\* SignedValue(seed, n, v, now) is never accepted under that seed, whatever
\* its value and timestamp fields.
C6_NameBound ==
    (origin.kind = "replayed" /\ ValidatedSameSeed) => ~res.ok

\* C7: whenever Validate returns ok = false, the value returned is nil and
\* the time returned is the zero time.
C7_ZeroOnFailure ==
    (res.called /\ ~res.ok) => (res.value = NilValue /\ res.t = ZeroTime)

\* C8: with one byte of the value field or of the timestamp field replaced
\* by another byte, Validate under the same seed and name returns ok = false,
\* for every expiration and every clock reading.
C8_TamperDetected ==
    (origin.kind = "tampered" /\ ValidatedSameSeed) => ~res.ok

\* the timestamp was edited into another timestamp that is inside the window
C8_Witness ==
    /\ origin.kind = "tampered" /\ origin.field = 2 /\ ValidatedSameSeed
    /\ LET ts == Atoi(Split(cookie.Value)[2])
       IN ts.ok /\ ts.val # UnixSeconds(origin.now)
          /\ inWindow(ts.val * SubSec, res.expiration, res.now1, res.now2)
    /\ ~res.ok /\ res.at = "sig"

\* C9: checkSignature accepts exactly the signatures that decode
\* (base64url) to the HMAC-SHA256 or the HMAC-SHA1 of name + encodedValue +
\* timestamp under the seed; an envelope signed with the SHA1 MAC validates
\* inside the window, one signed with another hash is rejected.
C9_SignatureCheck ==
    res.called =>
        LET parts == Split(cookie.Value)
        IN /\ Len(parts) = 3 =>
                LET mac == DecodeString("url", parts[3])
                    msg == cookie.Name \o parts[1] \o parts[2]
                IN (res.at # "sig") <=>
                      /\ mac.ok
                      /\ mac.bytes \in { hmacSum("sha256", res.seed, msg),
                                         hmacSum("sha1", res.seed, msg) }
           /\ (/\ origin.kind = "signed" /\ origin.signer = "sha1"
               /\ res.seed = origin.seed
               /\ res.expiration > 0 /\ res.now1 = origin.now) => res.ok
           /\ (origin.kind = "signed" /\ origin.signer = "md5") => res.at = "sig"
           /\ (origin.kind = "malformed" /\ origin.field = 3) => res.at = "sig"

C9_Witness ==
    /\ res.called /\ origin.kind = "signed" /\ origin.signer = "sha1"
    /\ res.seed = origin.seed /\ res.ok /\ res.value.bytes = origin.value

\* a cipher other than the bare DefaultCipher
EmbedsDefault == cipher.made /\ (cipher.wrap \/ cipher.variant \in {"cfb", "gcm"})

\* C1: on a cipher that embeds DefaultCipher and a non-empty string s,
\* EncryptInto(&s) leaves in s what that cipher's own Encrypt returns for the
\* bytes of s, and DecryptInto(&s) what its own Decrypt returns.
C1_IntoUsesOwnCodec ==
    (EmbedsDefault /\ ~last.arg.nil /\ last.arg.str # << >>) =>
        /\ (last.op = "EncryptInto" /\ last.rnd.ok) =>
               last.s = String(Encrypt(cipher, last.arg.str, last.rnd).out.bytes)
        /\ last.op = "DecryptInto" =>
               LET d == Decrypt(cipher, last.arg.str)
               IN (~d.err /\ ~d.panic) => last.s = String(d.out.bytes)

\* C2: GCMCipher.Decrypt of an input shorter than the nonce returns an error
\* and a nil plaintext, and does not panic.
C2_GCMShortInput ==
    (/\ last.op = "Decrypt" /\ ~cipher.wrap /\ cipher.variant = "gcm"
     /\ Len(last.arg.str) < NonceSize) =>
        (last.err /\ last.out.nil /\ ~last.panic)

\* C10: Decrypt(Encrypt(v)) succeeds and is v, for AES-CFB, AES-GCM and the
\* base64 decorator over either; the ciphertext is the IV (or nonce)
\* followed by the encrypted bytes, and the decorator's output is the
\* standard base64 text of the wrapped cipher's output.
C10_CipherRoundTrip ==
    (cipher.made /\ cipher.variant \in {"cfb", "gcm"}) =>
        /\ (last.op = "Decrypt" /\ ~buf.cut) =>
               (~last.err /\ ~last.panic /\ last.out = Bytes(buf.from))
        /\ (last.op = "Encrypt" /\ last.rnd.ok) =>
               LET ivLen == IF cipher.variant = "cfb" THEN BlockSize ELSE NonceSize
                   extra == IF cipher.variant = "cfb" THEN 0 ELSE TagSize
                   raw == IF cipher.wrap
                          THEN DecodeString("std", last.out.bytes).bytes
                          ELSE last.out.bytes
               IN /\ ~last.err /\ ~last.panic
                  /\ Len(raw) = ivLen + Len(last.arg.str) + extra
                  /\ Take(raw, ivLen) = Take(last.rnd.bytes, ivLen)
                  /\ cipher.wrap => last.out.bytes = EncodeToString("std", raw)

C10_Witness ==
    /\ cipher.made /\ cipher.wrap /\ cipher.variant = "cfb"
    /\ last.op = "Decrypt" /\ ~buf.cut /\ Len(buf.from) > BlockSize
    /\ last.out = Bytes(buf.from)

====
